---------------------------- MODULE Spec2Model ----------------------------
(***************************************************************************)
(* Model of get_descriptor (src/windows_native/descriptor/mod.rs): the     *)
(* reconstruction of a HID report descriptor from Windows preparsed data.  *)
(* One run of the state machine is one call of get_descriptor on one blob. *)
(* The blob (header, capability array, link-collection-node array) and the *)
(* caller's buffer are chosen in Init and never change afterwards; the     *)
(* other variables are the locals of get_descriptor.                       *)
(***************************************************************************)
EXTENDS Integers, Sequences, FiniteSets, TLC

(***************************************************************************)
(* Bounds of the model.                                                    *)
(***************************************************************************)
\* most link-collection nodes in a blob
MaxNodes == 3
\* most capability records in a blob
MaxCaps == 2
\* report IDs 0 .. NumReportIds-1 stand for the 0..256 of the loops
NumReportIds == 2

\* Option<u16>::None
None == -1

U16(x) == x % 65536

\* b"HidP KDR"
MAGIC == <<72, 105, 100, 80, 32, 75, 68, 82>>

\* ReportType::values(), in the order of the caps_info array
ReportTypeValues == <<"Input", "Output", "Feature">>

ReportTypes == {ReportTypeValues[i] : i \in 1..Len(ReportTypeValues)}

RtPos(rt) == CHOOSE i \in 1..Len(ReportTypeValues) : ReportTypeValues[i] = rt

VARIABLES
    \* the preparsed data
    magic_key,                     \* header.magic_key
    caps_info,                     \* header.caps_info[rt]: first_cap, last_cap
    caps,                          \* header.caps, indexed from 0
    link_collection_nodes,         \* the node array, indexed from 0
    \* the caller's buffer
    buf,
    \* locals of get_descriptor
    pc,
    result,
    coll_bit_range,
    max_coll_level,
    coll_levels,
    coll_number_of_direct_childs,
    coll_child_order,
    coll_parsed_flag,
    actual_coll_level,
    collection_node_idx,
    child_idx,
    reportid_idx,
    rt_i,                          \* position of rt_idx in ReportType::values()
    caps_idx

blob == <<magic_key, caps_info, caps, link_collection_nodes>>

tables == <<coll_bit_range, max_coll_level, coll_levels,
            coll_number_of_direct_childs, coll_child_order, coll_parsed_flag>>

cursors == <<actual_coll_level, collection_node_idx, child_idx, reportid_idx,
             rt_i, caps_idx>>

vars == <<blob, buf, pc, result, tables, cursors>>

\* header.number_link_collection_nodes
number_link_collection_nodes == Cardinality(DOMAIN link_collection_nodes)

(***************************************************************************)
(* The blobs of Init.  A tree is given by a parent for every node but the  *)
(* root (smaller than the node) and a ranking of the nodes that orders     *)
(* every sibling chain; number_of_children, first_child and next_sibling   *)
(* follow from them.                                                       *)
(***************************************************************************)
ChildrenIn(par, q) == {i \in DOMAIN par : par[i] = q}

MinBy(S, rank) == CHOOSE x \in S : \A y \in S : rank[x] <= rank[y]

MakeNode(par, rank, i) ==
    LET kids == ChildrenIn(par, i)
        later == IF i = 0 THEN {}
                 ELSE {j \in ChildrenIn(par, par[i]) : rank[j] > rank[i]}
    IN [parent |-> IF i = 0 THEN 0 ELSE par[i],
        number_of_children |-> Cardinality(kids),
        next_sibling |-> IF later = {} THEN 0 ELSE MinBy(later, rank),
        first_child |-> IF kids = {} THEN 0 ELSE MinBy(kids, rank)]

Trees(n) ==
    IF n = 0 THEN {<<>>}
    ELSE { [i \in 0..(n-1) |-> MakeNode(par, rank, i)] :
             par \in {p \in [1..(n-1) -> 0..(n-1)] : \A i \in 1..(n-1) : p[i] < i},
             rank \in {r \in [1..(n-1) -> 1..(n-1)] :
                         \A i, j \in 1..(n-1) : i # j => r[i] # r[j]} }

\* The fields of a capability record the code reads, but link_collection.
CapShapes ==
    { [rt |-> "Input",  report_id |-> 1, byte_position |-> 1, bit_position |-> 0,
       report_size |-> 8, report_count |-> 1],
      [rt |-> "Input",  report_id |-> 1, byte_position |-> 2, bit_position |-> 0,
       report_size |-> 8, report_count |-> 1],
      [rt |-> "Input",  report_id |-> 1, byte_position |-> 3, bit_position |-> 0,
       report_size |-> 4, report_count |-> 2],
      [rt |-> "Output", report_id |-> 0, byte_position |-> 1, bit_position |-> 4,
       report_size |-> 1, report_count |-> 3] }

ShapeCode(s) == 1000 * RtPos(s.rt) + 100 * s.report_id + 10 * s.byte_position
                + s.bit_position

\* a blob with no node still has the implicit root its records name
CapOwners(n) == IF n = 0 THEN {0} ELSE 0..(n-1)

CapChoicesOf(n, shapes) == [shape : shapes, link_collection : CapOwners(n)]

CapChoices(n) == CapChoicesOf(n, CapShapes)

\* The capability arrays: the records of one report type are contiguous,
\* Input first; within a type the records are listed in one fixed order, and
\* no two records hold the same bits of the same report.
CapListsOf(n, most, shapes) ==
    UNION { {s \in [1..k -> CapChoicesOf(n, shapes)] :
               \A i \in 1..(k-1) : ShapeCode(s[i].shape) < ShapeCode(s[i+1].shape)} :
            k \in 0..most }

CapLists(n) == CapListsOf(n, MaxCaps, CapShapes)

MakeCaps(s) ==
    [i \in 0..(Len(s)-1) |->
        [report_id |-> s[i+1].shape.report_id,
         bit_position |-> s[i+1].shape.bit_position,
         report_size |-> s[i+1].shape.report_size,
         report_count |-> s[i+1].shape.report_count,
         byte_position |-> s[i+1].shape.byte_position,
         link_collection |-> s[i+1].link_collection]]

CountBefore(s, p) == Cardinality({i \in 1..Len(s) : RtPos(s[i].shape.rt) < p})

MakeCapsInfo(s) ==
    [rt \in ReportTypes |->
        [first_cap |-> CountBefore(s, RtPos(rt)),
         last_cap |-> CountBefore(s, RtPos(rt) + 1)]]

\* the marker, and markers that differ from it in the last and the first byte
MagicKeys == {MAGIC, [MAGIC EXCEPT ![8] = 83], [MAGIC EXCEPT ![1] = 0]}

\* what the caller's buffer holds before the call
CallerBuffer == <<161, 0, 192, 0>>

BitRangeDefault == [first_bit |-> None, last_bit |-> None]

\* the state at the entry of get_descriptor, for the blobs of at most
\* most_nodes nodes and most_caps records of the given shapes
InitOf(most_nodes, most_caps, shapes) ==
    /\ magic_key \in MagicKeys
    /\ \E n \in 0..most_nodes :
         /\ link_collection_nodes \in Trees(n)
         /\ \E s \in CapListsOf(n, most_caps, shapes) :
              /\ caps = MakeCaps(s)
              /\ caps_info = MakeCapsInfo(s)
    /\ buf = CallerBuffer
    /\ pc = "start"
    /\ result = [kind |-> "none", value |-> 0, error |-> ""]
    /\ coll_bit_range = <<>>
    /\ max_coll_level = 0
    /\ coll_levels = <<>>
    /\ coll_number_of_direct_childs = <<>>
    /\ coll_child_order = <<>>
    /\ coll_parsed_flag = <<>>
    /\ actual_coll_level = 0
    /\ collection_node_idx = 0
    /\ child_idx = 0
    /\ reportid_idx = 0
    /\ rt_i = 1
    /\ caps_idx = 0

Init == InitOf(MaxNodes, MaxCaps, CapShapes)

\* records at the end of the 16-bit range of bit offsets, and past it: one
\* that ends on bit 65535, one that would end on bit 65539, one with
\* byte_position 0, and two plain ones
BitShapes ==
    { [rt |-> "Input",  report_id |-> 1, byte_position |-> 1, bit_position |-> 0,
       report_size |-> 8, report_count |-> 1],
      [rt |-> "Input",  report_id |-> 1, byte_position |-> 8192, bit_position |-> 0,
       report_size |-> 8, report_count |-> 1],
      [rt |-> "Input",  report_id |-> 1, byte_position |-> 8192, bit_position |-> 4,
       report_size |-> 8, report_count |-> 1],
      [rt |-> "Output", report_id |-> 0, byte_position |-> 0, bit_position |-> 0,
       report_size |-> 8, report_count |-> 1],
      [rt |-> "Output", report_id |-> 0, byte_position |-> 1, bit_position |-> 4,
       report_size |-> 1, report_count |-> 3] }

InitBits == InitOf(MaxNodes, MaxCaps, BitShapes)

\* one node and one record more: a parent may have three children, each with
\* a record of its own
InitWide == InitOf(MaxNodes + 1, MaxCaps + 1, CapShapes)

(***************************************************************************)
(* mod.rs 24-26: the marker check.                                         *)
(***************************************************************************)
\* Variant: only the first seven bytes of the marker are compared.
MagicMatchesFirst7(key) == SubSeq(key, 1, 7) = SubSeq(MAGIC, 1, 7)

MagicMatches(key) == key = MAGIC

\* Variant: the buffer is zeroed before the marker is checked.
CheckMagicClearing ==
    /\ pc = "start"
    /\ buf' = [i \in DOMAIN buf |-> 0]
    /\ IF MagicMatches(magic_key)
       THEN /\ pc' = "init_range"
            /\ UNCHANGED result
       ELSE /\ pc' = "done"
            /\ result' = [kind |-> "Err", value |-> 0,
                           error |-> "InvalidPreparsedData"]
    /\ UNCHANGED <<blob, tables, cursors>>

CheckMagic ==
    /\ pc = "start"
    /\ IF MagicMatches(magic_key)
       THEN /\ pc' = "init_range"
            /\ UNCHANGED result
       ELSE /\ pc' = "done"
            /\ result' = [kind |-> "Err", value |-> 0,
                           error |-> "InvalidPreparsedData"]
    /\ UNCHANGED <<blob, buf, tables, cursors>>

(***************************************************************************)
(* mod.rs 38-45: an empty bit range for every (collection, report ID,      *)
(* report type).                                                           *)
(***************************************************************************)
ReportIds == 0..(NumReportIds - 1)

BitRangeKeys(n) == (0..(n-1)) \X ReportIds \X ReportTypes

InitBitRange ==
    /\ pc = "init_range"
    /\ coll_bit_range' = [k \in BitRangeKeys(number_link_collection_nodes)
                             |-> BitRangeDefault]
    /\ rt_i' = 1
    /\ caps_idx' = caps_info[ReportTypeValues[1]].first_cap
    /\ pc' = "index"
    /\ UNCHANGED <<blob, buf, result, max_coll_level, coll_levels,
                   coll_number_of_direct_childs, coll_child_order,
                   coll_parsed_flag, actual_coll_level, collection_node_idx,
                   child_idx, reportid_idx>>

(***************************************************************************)
(* mod.rs 47-57: the bit-range index.                                      *)
(***************************************************************************)
\* a.into_iter().chain(b).min() and .max() on Option<u16>
OptMin(a, b) == IF a = None THEN b ELSE IF b = None THEN a
                ELSE IF a <= b THEN a ELSE b

OptMax(a, b) == IF a = None THEN b ELSE IF b = None THEN a
                ELSE IF a >= b THEN a ELSE b

\* mod.rs 51
CapFirstBit(c) == U16(U16((c.byte_position - 1) * 8) + c.bit_position)

\* mod.rs 52
CapLastBit(c) == U16(U16(CapFirstBit(c) + U16(c.report_size * c.report_count)) - 1)

\* variant: the record's range replaces the entry
WidenByCapOverwriting(range, c) ==
    [first_bit |-> CapFirstBit(c), last_bit |-> CapLastBit(c)]

\* mod.rs 54-55
WidenByCap(range, c) ==
    [first_bit |-> OptMin(range.first_bit, CapFirstBit(c)),
     last_bit |-> OptMax(range.last_bit, CapLastBit(c))]

CapKey(c, rt) == <<c.link_collection, c.report_id, rt>>

\* mod.rs 51-52: one of the u16 operations of the two expressions leaves
\* 0..65535: the subtraction of 1 from byte_position, the product by 8, the
\* sum with bit_position, the product of size and count, the sum of first
\* bit and span, or the subtraction of 1 from that sum
Overflows(c) ==
    LET first == CapFirstBit(c)
        span == c.report_size * c.report_count
    IN \/ c.byte_position - 1 < 0
       \/ U16(c.byte_position - 1) * 8 > 65535
       \/ U16(U16(c.byte_position - 1) * 8) + c.bit_position > 65535
       \/ span > 65535
       \/ first + U16(span) > 65535
       \/ U16(first + U16(span)) - 1 < 0

\* what an overflowing operation does depends on the build: with overflow
\* checks the call panics, without them the value wraps
OverflowChecks(c) == IF Overflows(c) THEN BOOLEAN ELSE {FALSE}

\* mod.rs 49-56: one capability record of the current report type
IndexCap ==
    /\ pc = "index"
    /\ rt_i <= Len(ReportTypeValues)
    /\ caps_idx < caps_info[ReportTypeValues[rt_i]].last_cap
    /\ LET c == caps[caps_idx]
           key == CapKey(c, ReportTypeValues[rt_i])
       IN \E checked \in OverflowChecks(c) :
            IF ~checked /\ key \in DOMAIN coll_bit_range
            THEN /\ coll_bit_range' =
                       [coll_bit_range EXCEPT ![key] = WidenByCap(@, c)]
                 /\ caps_idx' = caps_idx + 1
                 /\ pc' = "index"
            ELSE \* a checked overflow, or unwrap() of None
                 /\ pc' = "panic"
                 /\ UNCHANGED <<coll_bit_range, caps_idx>>
    /\ UNCHANGED <<blob, buf, result, max_coll_level, coll_levels,
                   coll_number_of_direct_childs, coll_child_order,
                   coll_parsed_flag, actual_coll_level, collection_node_idx,
                   child_idx, reportid_idx, rt_i>>

\* mod.rs 47-49: the records of this report type are done
IndexNextType ==
    /\ pc = "index"
    /\ rt_i <= Len(ReportTypeValues)
    /\ caps_idx >= caps_info[ReportTypeValues[rt_i]].last_cap
    /\ rt_i' = rt_i + 1
    /\ caps_idx' = IF rt_i < Len(ReportTypeValues)
                   THEN caps_info[ReportTypeValues[rt_i + 1]].first_cap
                   ELSE caps_idx
    /\ UNCHANGED <<blob, buf, pc, result, tables, actual_coll_level,
                   collection_node_idx, child_idx, reportid_idx>>

(***************************************************************************)
(* mod.rs 65-75: the level and child-count tables, every level -1.         *)
(***************************************************************************)
InitLevels ==
    /\ pc = "index"
    /\ rt_i > Len(ReportTypeValues)
    /\ max_coll_level' = 0
    /\ coll_levels' = [i \in 0..(number_link_collection_nodes - 1) |-> -1]
    /\ coll_number_of_direct_childs' =
           [i \in 0..(number_link_collection_nodes - 1) |-> 0]
    /\ actual_coll_level' = 0
    /\ collection_node_idx' = 0
    /\ pc' = "walk"
    /\ UNCHANGED <<blob, buf, result, coll_bit_range, coll_child_order,
                   coll_parsed_flag, child_idx, reportid_idx, rt_i, caps_idx>>

(***************************************************************************)
(* mod.rs 76-94: the hierarchy walk, one iteration of the loop per step.   *)
(***************************************************************************)
\* Variant: a level is written only to a node that has none yet.
WalkMarkOnce(levels, idx, level) ==
    IF levels[idx] = -1 THEN [levels EXCEPT ![idx] = level] ELSE levels

\* mod.rs 77
WalkMark(levels, idx, level) == [levels EXCEPT ![idx] = level]

\* mod.rs 79
WalkDescends(levels, node) ==
    node.number_of_children > 0 /\ levels[node.first_child] = -1

\* mod.rs 77: coll_levels[0] of an empty table
WalkPanic ==
    /\ pc = "walk"
    /\ actual_coll_level >= 0
    /\ collection_node_idx \notin DOMAIN coll_levels
    /\ pc' = "panic"
    /\ UNCHANGED <<blob, buf, result, tables, cursors>>

\* mod.rs 79-84
WalkDescend ==
    /\ pc = "walk"
    /\ actual_coll_level >= 0
    /\ collection_node_idx \in DOMAIN coll_levels
    /\ LET node == link_collection_nodes[collection_node_idx]
           marked == WalkMark(coll_levels, collection_node_idx, actual_coll_level)
       IN /\ WalkDescends(marked, node)
          /\ actual_coll_level' = actual_coll_level + 1
          /\ coll_levels' = [marked EXCEPT ![collection_node_idx] =
                                               actual_coll_level + 1]
          /\ max_coll_level' = IF max_coll_level >= actual_coll_level + 1
                               THEN max_coll_level ELSE actual_coll_level + 1
          /\ coll_number_of_direct_childs' =
                 [coll_number_of_direct_childs EXCEPT ![collection_node_idx] = @ + 1]
          /\ collection_node_idx' = node.first_child
    /\ UNCHANGED <<blob, buf, pc, result, coll_bit_range, coll_child_order,
                   coll_parsed_flag, child_idx, reportid_idx, rt_i, caps_idx>>

\* variant: the sibling step counts on the node itself, not on its parent
WalkSiblingOwnCounter ==
    /\ pc = "walk"
    /\ actual_coll_level >= 0
    /\ collection_node_idx \in DOMAIN coll_levels
    /\ LET node == link_collection_nodes[collection_node_idx]
           marked == WalkMark(coll_levels, collection_node_idx, actual_coll_level)
       IN /\ ~WalkDescends(marked, node)
          /\ node.next_sibling # 0
          /\ coll_levels' = marked
          /\ coll_number_of_direct_childs' =
                 [coll_number_of_direct_childs EXCEPT ![collection_node_idx] = @ + 1]
          /\ collection_node_idx' = node.next_sibling
    /\ UNCHANGED <<blob, buf, pc, result, coll_bit_range, max_coll_level,
                   coll_child_order, coll_parsed_flag, actual_coll_level,
                   child_idx, reportid_idx, rt_i, caps_idx>>

\* mod.rs 85-87
WalkSibling ==
    /\ pc = "walk"
    /\ actual_coll_level >= 0
    /\ collection_node_idx \in DOMAIN coll_levels
    /\ LET node == link_collection_nodes[collection_node_idx]
           marked == WalkMark(coll_levels, collection_node_idx, actual_coll_level)
       IN /\ ~WalkDescends(marked, node)
          /\ node.next_sibling # 0
          /\ coll_levels' = marked
          /\ coll_number_of_direct_childs' =
                 [coll_number_of_direct_childs EXCEPT ![node.parent] = @ + 1]
          /\ collection_node_idx' = node.next_sibling
    /\ UNCHANGED <<blob, buf, pc, result, coll_bit_range, max_coll_level,
                   coll_child_order, coll_parsed_flag, actual_coll_level,
                   child_idx, reportid_idx, rt_i, caps_idx>>

\* variant: the walk ascends to node 0 whatever the parent is
WalkAscendToRoot ==
    /\ pc = "walk"
    /\ actual_coll_level >= 0
    /\ collection_node_idx \in DOMAIN coll_levels
    /\ LET node == link_collection_nodes[collection_node_idx]
           marked == WalkMark(coll_levels, collection_node_idx, actual_coll_level)
       IN /\ ~WalkDescends(marked, node)
          /\ node.next_sibling = 0
          /\ coll_levels' = marked
          /\ actual_coll_level' = actual_coll_level - 1
          /\ collection_node_idx' = IF actual_coll_level - 1 >= 0
                                    THEN 0 ELSE collection_node_idx
    /\ UNCHANGED <<blob, buf, pc, result, coll_bit_range, max_coll_level,
                   coll_number_of_direct_childs, coll_child_order,
                   coll_parsed_flag, child_idx, reportid_idx, rt_i, caps_idx>>

\* mod.rs 88-93
WalkAscend ==
    /\ pc = "walk"
    /\ actual_coll_level >= 0
    /\ collection_node_idx \in DOMAIN coll_levels
    /\ LET node == link_collection_nodes[collection_node_idx]
           marked == WalkMark(coll_levels, collection_node_idx, actual_coll_level)
       IN /\ ~WalkDescends(marked, node)
          /\ node.next_sibling = 0
          /\ coll_levels' = marked
          /\ actual_coll_level' = actual_coll_level - 1
          /\ collection_node_idx' = IF actual_coll_level - 1 >= 0
                                    THEN node.parent ELSE collection_node_idx
    /\ UNCHANGED <<blob, buf, pc, result, coll_bit_range, max_coll_level,
                   coll_number_of_direct_childs, coll_child_order,
                   coll_parsed_flag, child_idx, reportid_idx, rt_i, caps_idx>>

\* mod.rs 76, 101: the walk is over; the first level of the propagation
WalkExit ==
    /\ pc = "walk"
    /\ actual_coll_level < 0
    /\ actual_coll_level' = max_coll_level - 1
    /\ collection_node_idx' = 0
    /\ pc' = "prop_for"
    /\ UNCHANGED <<blob, buf, result, tables, child_idx, reportid_idx, rt_i,
                   caps_idx>>

\* variant: the child's range replaces the parent's
WidenByChildOverwriting(parent, child) == child

(***************************************************************************)
(* mod.rs 101-123: propagation of the bit ranges from the children to the  *)
(* parent, from level max_coll_level-1 down to 0.                          *)
(***************************************************************************)
\* mod.rs 115-116
WidenByChild(parent, child) ==
    [first_bit |-> OptMin(parent.first_bit, child.first_bit),
     last_bit |-> OptMax(parent.last_bit, child.last_bit)]

\* variant: the merge leaves the sibling cursor where it is
CursorAfterMergeStaying(cursor) == cursor

\* mod.rs 117: where the sibling cursor is after the merge of one
\* (report ID, report type) pair
CursorAfterMerge(cursor) == link_collection_nodes[cursor].next_sibling

\* variant: the level loop counts max_coll_level down with its cursor
PropagateNextLevelConsuming ==
    /\ pc = "prop_for"
    /\ actual_coll_level >= 0
    /\ collection_node_idx >= number_link_collection_nodes
    /\ actual_coll_level' = actual_coll_level - 1
    /\ max_coll_level' = actual_coll_level
    /\ collection_node_idx' = 0
    /\ UNCHANGED <<blob, buf, pc, result, coll_bit_range, coll_levels,
                   coll_number_of_direct_childs, coll_child_order,
                   coll_parsed_flag, child_idx, reportid_idx, rt_i, caps_idx>>

\* mod.rs 102: the nodes of this level are done
PropagateNextLevel ==
    /\ pc = "prop_for"
    /\ actual_coll_level >= 0
    /\ collection_node_idx >= number_link_collection_nodes
    /\ actual_coll_level' = actual_coll_level - 1
    /\ collection_node_idx' = 0
    /\ UNCHANGED <<blob, buf, pc, result, tables, child_idx, reportid_idx,
                   rt_i, caps_idx>>

\* mod.rs 103: a node of another level
PropagateSkip ==
    /\ pc = "prop_for"
    /\ actual_coll_level >= 0
    /\ collection_node_idx < number_link_collection_nodes
    /\ coll_levels[collection_node_idx] # actual_coll_level
    /\ collection_node_idx' = collection_node_idx + 1
    /\ UNCHANGED <<blob, buf, pc, result, tables, actual_coll_level,
                   child_idx, reportid_idx, rt_i, caps_idx>>

\* mod.rs 103-104: a node of this level
PropagateEnter ==
    /\ pc = "prop_for"
    /\ actual_coll_level >= 0
    /\ collection_node_idx < number_link_collection_nodes
    /\ coll_levels[collection_node_idx] = actual_coll_level
    /\ child_idx' = link_collection_nodes[collection_node_idx].first_child
    /\ pc' = "prop_while"
    /\ UNCHANGED <<blob, buf, result, tables, actual_coll_level,
                   collection_node_idx, reportid_idx, rt_i, caps_idx>>

\* mod.rs 105-107: the cursor is not 0, the loops over the pairs start
PropagateWhileEnter ==
    /\ pc = "prop_while"
    /\ child_idx # 0
    /\ reportid_idx' = 0
    /\ rt_i' = 1
    /\ pc' = "prop_merge"
    /\ UNCHANGED <<blob, buf, result, tables, actual_coll_level,
                   collection_node_idx, child_idx, caps_idx>>

\* mod.rs 105: the cursor is 0
PropagateWhileExit ==
    /\ pc = "prop_while"
    /\ child_idx = 0
    /\ collection_node_idx' = collection_node_idx + 1
    /\ pc' = "prop_for"
    /\ UNCHANGED <<blob, buf, result, tables, actual_coll_level, child_idx,
                   reportid_idx, rt_i, caps_idx>>

\* mod.rs 106-118: one (report ID, report type) pair
PropagateMerge ==
    /\ pc = "prop_merge"
    /\ LET rt == ReportTypeValues[rt_i]
           child == coll_bit_range[<<child_idx, reportid_idx, rt>>]
           key == <<collection_node_idx, reportid_idx, rt>>
           last_rt == rt_i = Len(ReportTypeValues)
       IN /\ coll_bit_range' =
                [coll_bit_range EXCEPT ![key] = WidenByChild(@, child)]
          /\ child_idx' = CursorAfterMerge(child_idx)
          /\ rt_i' = IF last_rt THEN 1 ELSE rt_i + 1
          /\ reportid_idx' = IF last_rt THEN reportid_idx + 1 ELSE reportid_idx
          /\ pc' = IF last_rt /\ reportid_idx + 1 = NumReportIds
                   THEN "prop_while" ELSE "prop_merge"
    /\ UNCHANGED <<blob, buf, result, max_coll_level, coll_levels,
                   coll_number_of_direct_childs, coll_child_order,
                   coll_parsed_flag, actual_coll_level, collection_node_idx,
                   caps_idx>>

\* mod.rs 101, 129-133: every level is done; the resolver starts
PropagateExit ==
    /\ pc = "prop_for"
    /\ actual_coll_level < 0
    /\ coll_child_order' = <<>>
    /\ coll_parsed_flag' = [i \in 0..(number_link_collection_nodes - 1) |-> FALSE]
    /\ actual_coll_level' = 0
    /\ collection_node_idx' = 0
    /\ pc' = "resolve"
    /\ UNCHANGED <<blob, buf, result, coll_bit_range, max_coll_level,
                   coll_levels, coll_number_of_direct_childs, child_idx,
                   reportid_idx, rt_i, caps_idx>>

(***************************************************************************)
(* mod.rs 129-192: the child order of every collection.                    *)
(***************************************************************************)
\* HashMap::insert
Insert(map, key, value) ==
    [k \in (DOMAIN map) \cup {key} |-> IF k = key THEN value ELSE map[k]]

\* variant: the first child goes one position past the end
FirstChildPositionPastEnd(n) == n

\* mod.rs 144: the position of the first child of the sibling chain
FirstChildPosition(n) == n - 1

\* Variant: the sibling chain is written from position 0 upwards.
RECURSIVE FillUpwards(_, _, _, _)
FillUpwards(order, parent, child, position) ==
    LET filled == Insert(order, <<parent, position>>, child)
        next == link_collection_nodes[child].next_sibling
    IN IF next = 0 THEN filled
       ELSE FillUpwards(filled, parent, next, position + 1)

FillChildOrderInChainOrder(order, parent, child, child_count) ==
    FillUpwards(order, parent, child, 0)

\* mod.rs 145-150: the sibling chain from `child` on, written from position
\* `child_count` downwards
RECURSIVE FillChildOrder(_, _, _, _)
FillChildOrder(order, parent, child, child_count) ==
    LET filled == Insert(order, <<parent, U16(child_count)>>, child)
        next == link_collection_nodes[child].next_sibling
    IN IF next = 0 THEN filled
       ELSE FillChildOrder(filled, parent, next, child_count - 1)

\* Variant: the comparison of the first bits is turned round.
SwapNeededReversed(prev, cur) ==
    /\ prev.first_bit # None
    /\ cur.first_bit # None
    /\ prev.first_bit < cur.first_bit

\* mod.rs 166-172
SwapNeeded(prev, cur) ==
    /\ prev.first_bit # None
    /\ cur.first_bit # None
    /\ prev.first_bit > cur.first_bit

\* variant: the flag of the first child is not looked at
ResolveVisitsUnflagged ==
    coll_number_of_direct_childs[collection_node_idx] # 0

\* mod.rs 135-136
ResolveVisits ==
    /\ coll_number_of_direct_childs[collection_node_idx] # 0
    /\ ~coll_parsed_flag[link_collection_nodes[collection_node_idx].first_child]

\* mod.rs 135-153, 181-182: the order table of the node is filled from its
\* sibling chain; with one child the walk descends at once
ResolveVisit ==
    /\ pc = "resolve"
    /\ actual_coll_level >= 0
    /\ ResolveVisits
    /\ LET first == link_collection_nodes[collection_node_idx].first_child
           n == coll_number_of_direct_childs[collection_node_idx]
       IN /\ coll_parsed_flag' = [coll_parsed_flag EXCEPT ![first] = TRUE]
          /\ coll_child_order' =
                FillChildOrder(coll_child_order, collection_node_idx, first,
                               FirstChildPosition(n))
          /\ IF n > 1
             THEN /\ pc' = "res_sort"
                  /\ rt_i' = 1
                  /\ reportid_idx' = 0
                  /\ child_idx' = 1
                  /\ UNCHANGED <<actual_coll_level, collection_node_idx>>
             ELSE /\ actual_coll_level' = actual_coll_level + 1
                  /\ collection_node_idx' = first
                  /\ UNCHANGED <<pc, rt_i, reportid_idx, child_idx>>
    /\ UNCHANGED <<blob, buf, result, coll_bit_range, max_coll_level,
                   coll_levels, coll_number_of_direct_childs, caps_idx>>

\* mod.rs 155-182: one comparison of two neighbours of the order table; after
\* the last one the walk descends
ResolveCompare ==
    /\ pc = "res_sort"
    /\ LET rt == ReportTypeValues[rt_i]
           n == coll_number_of_direct_childs[collection_node_idx]
           prev_coll_idx == coll_child_order[<<collection_node_idx, child_idx - 1>>]
           cur_coll_idx == coll_child_order[<<collection_node_idx, child_idx>>]
           swap == SwapNeeded(coll_bit_range[<<prev_coll_idx, reportid_idx, rt>>],
                              coll_bit_range[<<cur_coll_idx, reportid_idx, rt>>])
           last_child == child_idx + 1 >= n
           last_report == reportid_idx + 1 >= NumReportIds
           last_rt == rt_i = Len(ReportTypeValues)
       IN /\ coll_child_order' =
                IF swap
                THEN Insert(Insert(coll_child_order,
                                   <<collection_node_idx, child_idx - 1>>, cur_coll_idx),
                            <<collection_node_idx, child_idx>>, prev_coll_idx)
                ELSE coll_child_order
          /\ child_idx' = IF last_child THEN 1 ELSE child_idx + 1
          /\ reportid_idx' = IF ~last_child THEN reportid_idx
                             ELSE IF last_report THEN 0 ELSE reportid_idx + 1
          /\ rt_i' = IF last_child /\ last_report /\ ~last_rt THEN rt_i + 1 ELSE rt_i
          /\ IF last_child /\ last_report /\ last_rt
             THEN /\ pc' = "resolve"
                  /\ actual_coll_level' = actual_coll_level + 1
                  /\ collection_node_idx' =
                        link_collection_nodes[collection_node_idx].first_child
             ELSE UNCHANGED <<pc, actual_coll_level, collection_node_idx>>
    /\ UNCHANGED <<blob, buf, result, coll_bit_range, max_coll_level,
                   coll_levels, coll_number_of_direct_childs, coll_parsed_flag,
                   caps_idx>>

\* mod.rs 183-184
ResolveSibling ==
    /\ pc = "resolve"
    /\ actual_coll_level >= 0
    /\ ~ResolveVisits
    /\ link_collection_nodes[collection_node_idx].next_sibling # 0
    /\ collection_node_idx' = link_collection_nodes[collection_node_idx].next_sibling
    /\ UNCHANGED <<blob, buf, pc, result, tables, actual_coll_level, child_idx,
                   reportid_idx, rt_i, caps_idx>>

\* mod.rs 185-189
ResolveAscend ==
    /\ pc = "resolve"
    /\ actual_coll_level >= 0
    /\ ~ResolveVisits
    /\ link_collection_nodes[collection_node_idx].next_sibling = 0
    /\ actual_coll_level' = actual_coll_level - 1
    /\ collection_node_idx' =
          IF actual_coll_level - 1 >= 0
          THEN link_collection_nodes[collection_node_idx].parent
          ELSE collection_node_idx
    /\ UNCHANGED <<blob, buf, pc, result, tables, child_idx, reportid_idx,
                   rt_i, caps_idx>>

(***************************************************************************)
(* mod.rs 194-199: nothing is emitted; the call returns Ok(0).             *)
(***************************************************************************)
\* mod.rs 199: the number of bytes the call reports as written
BytesWritten == 0

ReturnOk ==
    /\ pc = "resolve"
    /\ actual_coll_level < 0
    /\ result' = [kind |-> "Ok", value |-> BytesWritten, error |-> ""]
    /\ pc' = "done"
    /\ UNCHANGED <<blob, buf, tables, cursors>>

Next ==
    \/ CheckMagic
    \/ InitBitRange
    \/ IndexCap
    \/ IndexNextType
    \/ InitLevels
    \/ WalkPanic
    \/ WalkDescend
    \/ WalkSibling
    \/ WalkAscend
    \/ WalkExit
    \/ PropagateNextLevel
    \/ PropagateSkip
    \/ PropagateEnter
    \/ PropagateWhileEnter
    \/ PropagateWhileExit
    \/ PropagateMerge
    \/ PropagateExit
    \/ ResolveVisit
    \/ ResolveCompare
    \/ ResolveSibling
    \/ ResolveAscend
    \/ ReturnOk

Spec == Init /\ [][Next]_vars

SpecWide == InitWide /\ [][Next]_vars

SpecBits == InitBits /\ [][Next]_vars

\* the call runs on: no step of it waits for anything
FairSpec == Spec /\ WF_vars(Next)

(***************************************************************************)
(* The tree the node array describes, and the stages of a call.            *)
(***************************************************************************)
Nodes == DOMAIN link_collection_nodes

MagicOk == magic_key = MAGIC

RECURSIVE Depth(_)
Depth(i) == IF i = 0 THEN 0 ELSE 1 + Depth(link_collection_nodes[i].parent)

\* d is c or a node below c
RECURSIVE InSubtree(_, _)
InSubtree(d, c) ==
    \/ d = c
    \/ d # 0 /\ InSubtree(link_collection_nodes[d].parent, c)

IsDescendant(d, c) == d # c /\ InSubtree(d, c)

\* y comes after x in the sibling chain of their parent
RECURSIVE LaterSibling(_, _)
LaterSibling(x, y) ==
    LET next == link_collection_nodes[x].next_sibling
    IN next # 0 /\ (next = y \/ LaterSibling(next, y))

ReturnedOk == pc = "done" /\ result.kind = "Ok"

ReturnedErr == pc = "done" /\ result.kind = "Err"

\* the child order is being resolved, or is resolved
Propagated == pc \in {"resolve", "res_sort"} \/ ReturnedOk

\* the bit ranges are being propagated, or are
WalkDone == pc \in {"prop_for", "prop_while", "prop_merge"} \/ Propagated

Range(c, rid, rt) == coll_bit_range[<<c, rid, rt>>]

Occupied(c, rid, rt) ==
    Range(c, rid, rt).first_bit # None \/ Range(c, rid, rt).last_bit # None

\* the position of child in the order table of parent
PositionOf(parent, child) ==
    CHOOSE p \in 0..(coll_number_of_direct_childs[parent] - 1) :
        coll_child_order[<<parent, p>>] = child

\* capability record i is one of report type rt
CapOfType(i, rt) ==
    i >= caps_info[rt].first_cap /\ i < caps_info[rt].last_cap

(***************************************************************************)
(* C1: after propagation, the bit range of every collection bounds the     *)
(* range of each of its descendants, for every report ID and report type:  *)
(* where the descendant has a first and a last bit, the collection has     *)
(* them too, its first bit not greater and its last bit not smaller.       *)
(***************************************************************************)
C1_RangeBoundsDescendants ==
    Propagated =>
        \A c \in Nodes, d \in Nodes :
            IsDescendant(d, c) =>
                \A rid \in ReportIds, rt \in ReportTypes :
                    /\ Range(d, rid, rt).first_bit # None =>
                          /\ Range(c, rid, rt).first_bit # None
                          /\ Range(c, rid, rt).first_bit <= Range(d, rid, rt).first_bit
                    /\ Range(d, rid, rt).last_bit # None =>
                          /\ Range(c, rid, rt).last_bit # None
                          /\ Range(c, rid, rt).last_bit >= Range(d, rid, rt).last_bit

(***************************************************************************)
(* C2: a blob whose marker is not "HidP KDR" makes the call return         *)
(* Err(InvalidPreparsedData) in its first step, whatever the blob holds,   *)
(* with no table built and no loop started.                                *)
(***************************************************************************)
C2_BadMagicIsRejectedFirst ==
    (magic_key # MAGIC /\ pc # "start") =>
        /\ pc = "done"
        /\ result = [kind |-> "Err", value |-> 0, error |-> "InvalidPreparsedData"]
        /\ coll_bit_range = <<>>
        /\ coll_levels = <<>>
        /\ coll_number_of_direct_childs = <<>>
        /\ coll_child_order = <<>>
        /\ coll_parsed_flag = <<>>
        /\ cursors = <<0, 0, 0, 0, 1, 0>>

C2_Witness ==
    /\ magic_key # MAGIC
    /\ pc = "done"
    /\ number_link_collection_nodes > 1
    /\ DOMAIN caps # {}

(***************************************************************************)
(* C3: with a valid marker and no link-collection node the call does not   *)
(* fault in any step.                                                      *)
(***************************************************************************)
C3_NoNodeNoFault ==
    (MagicOk /\ number_link_collection_nodes = 0) => pc # "panic"

(***************************************************************************)
(* C4: when the hierarchy walk is over, the level of every node is its     *)
(* depth in the tree: not negative, 0 for the root, never the -1 of an     *)
(* unvisited node.                                                         *)
(***************************************************************************)
C4_LevelIsDepth ==
    WalkDone =>
        /\ \A i \in Nodes : coll_levels[i] = Depth(i) /\ coll_levels[i] >= 0
        /\ coll_levels[0] = 0

\* a chain of three nodes, walked
C4_Witness ==
    /\ pc = "prop_for"
    /\ max_coll_level = 2
    /\ coll_levels[2] = 2

\* node owns an input record of report ID 1 that spans first..last
OwnsInputField(node, first, last) ==
    \E i \in DOMAIN caps :
        /\ CapOfType(i, "Input")
        /\ caps[i].link_collection = node
        /\ caps[i].report_id = 1
        /\ CapFirstBit(caps[i]) = first
        /\ CapLastBit(caps[i]) = last

TwoFieldScenario(A, B) ==
    /\ MagicOk
    /\ Nodes = {0, A, B}
    /\ A # B /\ A # 0 /\ B # 0
    /\ link_collection_nodes[A].parent = 0
    /\ link_collection_nodes[B].parent = 0
    /\ Cardinality(DOMAIN caps) = 2
    /\ OwnsInputField(A, 0, 7)
    /\ OwnsInputField(B, 8, 15)

(***************************************************************************)
(* C5: a root with two leaf children A and B, A with one input record on   *)
(* report ID 1 at bits 0-7 and B with one at bits 8-15, and no other       *)
(* record: the order table of the root is [A, B], whichever of the two     *)
(* nodes is A and whichever comes first in the sibling chain.              *)
(***************************************************************************)
C5_TwoFieldsOrder ==
    \A A \in 1..2, B \in 1..2 :
        (TwoFieldScenario(A, B) /\ ReturnedOk) =>
            /\ coll_child_order[<<0, 0>>] = A
            /\ coll_child_order[<<0, 1>>] = B

\* A is the first of the chain, so the table starts as [B, A]; and A is node 2
C5_Witness ==
    /\ TwoFieldScenario(2, 1)
    /\ link_collection_nodes[0].first_child = 2
    /\ ReturnedOk
    /\ coll_child_order[<<0, 0>>] = 2

EmptyEverywhere(x) ==
    \A rid \in ReportIds, rt \in ReportTypes : ~Occupied(x, rid, rt)

EmptySiblings(x, y) ==
    /\ x # 0 /\ y # 0 /\ x # y
    /\ link_collection_nodes[x].parent = link_collection_nodes[y].parent
    /\ LaterSibling(x, y)
    /\ EmptyEverywhere(x)
    /\ EmptyEverywhere(y)

(***************************************************************************)
(* C6: two siblings whose bit ranges are empty for every report type and   *)
(* report ID.  As claimed: the one met earlier in the sibling chain comes  *)
(* earlier in the order table of the parent.                               *)
(***************************************************************************)
C6_EmptySiblingsKeepChainOrder ==
    ReturnedOk =>
        \A x \in Nodes, y \in Nodes :
            EmptySiblings(x, y) =>
                PositionOf(link_collection_nodes[x].parent, x)
                    < PositionOf(link_collection_nodes[x].parent, y)

(***************************************************************************)
(* C6, amended: two siblings whose bit ranges are empty for every report   *)
(* type and report ID are in the order table in the reverse of their       *)
(* sibling-chain order: the one met earlier in the chain comes later.      *)
(***************************************************************************)
C6_EmptySiblingsReverseChainOrder ==
    ReturnedOk =>
        \A x \in Nodes, y \in Nodes :
            EmptySiblings(x, y) =>
                PositionOf(link_collection_nodes[x].parent, x)
                    > PositionOf(link_collection_nodes[x].parent, y)

\* two empty children of a root that holds bits, the order table resolved
C6_Witness ==
    /\ ReturnedOk
    /\ \E x \in Nodes, y \in Nodes :
          /\ EmptySiblings(x, y)
          /\ coll_child_order[<<0, 0>>] = y
          /\ coll_child_order[<<0, 1>>] = x
    /\ ~EmptyEverywhere(0)

\* the bytes of data that follow the prefix byte of a short item
ItemDataLen(prefix) == IF prefix % 4 = 3 THEN 4 ELSE prefix % 4

\* the short items of `bytes` whose tag and type are `tag`
RECURSIVE CountItems(_, _)
CountItems(bytes, tag) ==
    IF bytes = <<>> THEN 0
    ELSE (IF (bytes[1] \div 4) * 4 = tag THEN 1 ELSE 0)
         + (IF 1 + ItemDataLen(bytes[1]) >= Len(bytes) THEN 0
            ELSE CountItems(SubSeq(bytes, 2 + ItemDataLen(bytes[1]), Len(bytes)), tag))

\* the bytes the call has changed
ChangedBytes == {i \in DOMAIN buf : buf[i] # CallerBuffer[i]}

(***************************************************************************)
(* C7: a successful call on a tree with k >= 1 nodes besides the root has  *)
(* written k open-collection and k close-collection items to the buffer    *)
(* and returns the number of bytes it wrote.                               *)
(***************************************************************************)
C7_CollectionsEmitted ==
    (ReturnedOk /\ number_link_collection_nodes >= 2) =>
        LET written == SubSeq(buf, 1, result.value)
        IN /\ CountItems(written, 160) = number_link_collection_nodes - 1
           /\ CountItems(written, 192) = number_link_collection_nodes - 1
           /\ ChangedBytes \subseteq 1..result.value

(***************************************************************************)
(* C8: when the call returns an error the buffer holds what it held        *)
(* before the call.                                                        *)
(***************************************************************************)
C8_ErrorLeavesBuffer ==
    ReturnedErr => buf = CallerBuffer

C8_Witness ==
    /\ ReturnedErr
    /\ result.error = "InvalidPreparsedData"
    /\ buf # <<>>

(***************************************************************************)
(* C9: while the ranges of the children of one node are merged, every      *)
(* merge takes its range from a direct child of the node, and the sibling  *)
(* cursor moves only when the pairs (report ID, report type) of the child  *)
(* it is on have all been merged.                                          *)
(***************************************************************************)
C9_CursorMovesOncePerChild ==
    [][pc = "prop_merge" =>
          /\ child_idx # 0
          /\ link_collection_nodes[child_idx].parent = collection_node_idx
          /\ (pc' = "prop_merge" => child_idx' = child_idx)]_vars

(***************************************************************************)
(* C10: after propagation a collection holds bits for a report ID and a    *)
(* report type only if a record of that ID and type belongs to it or to    *)
(* one of its descendants.                                                 *)
(***************************************************************************)
C10_BitsComeFromSubtree ==
    Propagated =>
        \A c \in Nodes, rid \in ReportIds, rt \in ReportTypes :
            Occupied(c, rid, rt) =>
                \E i \in DOMAIN caps :
                    /\ CapOfType(i, rt)
                    /\ caps[i].report_id = rid
                    /\ InSubtree(caps[i].link_collection, c)

\* the children of p
ChildrenOf(p) == {c \in Nodes \ {0} : link_collection_nodes[c].parent = p}

\* every child of p holds bits under (rid, rt) and under no other key, and
\* no two children start at the same bit
OneKeyDistinct(p, rid, rt) ==
    /\ \A c \in ChildrenOf(p) :
          \A rid2 \in ReportIds, rt2 \in ReportTypes :
              (Range(c, rid2, rt2).first_bit # None) <=> (rid2 = rid /\ rt2 = rt)
    /\ \A c \in ChildrenOf(p), d \in ChildrenOf(p) :
          c # d => Range(c, rid, rt).first_bit # Range(d, rid, rt).first_bit

\* the order table of p ascends in the first bit of (rid, rt)
AscendingOrder(p, rid, rt) ==
    \A i \in 0..(coll_number_of_direct_childs[p] - 1),
       j \in 0..(coll_number_of_direct_childs[p] - 1) :
        i < j => Range(coll_child_order[<<p, i>>], rid, rt).first_bit
                   < Range(coll_child_order[<<p, j>>], rid, rt).first_bit

(***************************************************************************)
(* C11: when the child order is resolved, a parent with two or more        *)
(* children that all hold bits under one key only, with different first    *)
(* bits, lists them in ascending first bit, for any number of children.    *)
(***************************************************************************)
C11_ChildrenAscendByFirstBit ==
    ReturnedOk =>
        \A p \in Nodes, rid \in ReportIds, rt \in ReportTypes :
            (Cardinality(ChildrenOf(p)) >= 2 /\ OneKeyDistinct(p, rid, rt))
                => AscendingOrder(p, rid, rt)

\* the index is built and propagation has not begun
IndexBuilt == (pc = "index" /\ rt_i > Len(ReportTypeValues)) \/ pc = "walk"

\* the records of rt's index range that name collection c and report rid
Matching(c, rid, rt) ==
    {i \in DOMAIN caps :
        /\ i >= caps_info[rt].first_cap /\ i < caps_info[rt].last_cap
        /\ caps[i].link_collection = c
        /\ caps[i].report_id = rid}

\* the absolute bit offset of record i, as an unbounded integer
Offset(i) == (caps[i].byte_position - 1) * 8 + caps[i].bit_position

\* the last bit of record i, as an unbounded integer
LastOffset(i) == Offset(i) + caps[i].report_size * caps[i].report_count - 1

Least(S) == CHOOSE x \in S : \A y \in S : x <= y

Greatest(S) == CHOOSE x \in S : \A y \in S : x >= y

(***************************************************************************)
(* C12: once the index is built, an entry whose key no record of the       *)
(* report type's range names is empty, and any other entry has the least   *)
(* offset of its records as first bit and their greatest last bit as last  *)
(* bit.                                                                    *)
(***************************************************************************)
C12_IndexIsMinMaxOfRecords ==
    IndexBuilt =>
        \A c \in Nodes, rid \in ReportIds, rt \in ReportTypes :
            IF Matching(c, rid, rt) = {}
            THEN Range(c, rid, rt) = [first_bit |-> None, last_bit |-> None]
            ELSE /\ Range(c, rid, rt).first_bit
                      = Least({Offset(i) : i \in Matching(c, rid, rt)})
                 /\ Range(c, rid, rt).last_bit
                      = Greatest({LastOffset(i) : i \in Matching(c, rid, rt)})

\* two records widened one entry, and another entry stayed empty
C12_Witness ==
    /\ IndexBuilt
    /\ \E c \in Nodes, rid \in ReportIds, rt \in ReportTypes :
          /\ Cardinality(Matching(c, rid, rt)) = 2
          /\ Range(c, rid, rt) = [first_bit |-> 0, last_bit |-> 15]
    /\ \E c \in Nodes, rid \in ReportIds, rt \in ReportTypes :
          Range(c, rid, rt).first_bit = None

\* the entry keeps what it had: a present bound stays present, the first
\* bit does not rise and the last bit does not fall
NotNarrowed(old, new) ==
    /\ old.first_bit # None =>
          (new.first_bit # None /\ new.first_bit <= old.first_bit)
    /\ old.last_bit # None =>
          (new.last_bit # None /\ new.last_bit >= old.last_bit)

(***************************************************************************)
(* C13: no step of the run narrows a bit-range entry: every entry that     *)
(* exists before a step exists after it, with a first bit that is not      *)
(* greater and a last bit that is not smaller, and a bound that was        *)
(* present is still present.                                               *)
(***************************************************************************)
C13_EntriesOnlyWiden ==
    [][\A k \in DOMAIN coll_bit_range :
          /\ k \in DOMAIN coll_bit_range'
          /\ NotNarrowed(coll_bit_range[k], coll_bit_range'[k])]_vars

\* propagation has widened a parent's entry that no record of its own fills
C13_Witness ==
    /\ pc \in {"prop_for", "prop_while", "prop_merge"}
    /\ \E p \in Nodes, rid \in ReportIds, rt \in ReportTypes :
          /\ Matching(p, rid, rt) = {}
          /\ Range(p, rid, rt).first_bit # None
          /\ Range(p, rid, rt).last_bit > Range(p, rid, rt).first_bit

\* the nodes met by following next_sibling from node c
RECURSIVE ChainFrom(_)
ChainFrom(c) ==
    IF link_collection_nodes[c].next_sibling = 0 THEN {c}
    ELSE {c} \cup ChainFrom(link_collection_nodes[c].next_sibling)

\* the length of the sibling chain that starts at the first child of p
ChainLength(p) ==
    IF link_collection_nodes[p].number_of_children = 0 THEN 0
    ELSE Cardinality(ChainFrom(link_collection_nodes[p].first_child))

(***************************************************************************)
(* C14: when the hierarchy walk is over, the child counter of every node   *)
(* is the number of nodes whose parent it is, which is the length of its   *)
(* sibling chain (0 for a leaf), and max_coll_level is the greatest depth  *)
(* of a node.                                                              *)
(***************************************************************************)
C14_CountsAndMaxLevel ==
    (WalkDone /\ Nodes # {}) =>
        /\ \A p \in Nodes :
              /\ coll_number_of_direct_childs[p] = Cardinality(ChildrenOf(p))
              /\ coll_number_of_direct_childs[p] = ChainLength(p)
        /\ max_coll_level = Greatest({Depth(i) : i \in Nodes})

\* the walk of a root with two leaf children is over
C14_Witness ==
    /\ pc = "prop_for"
    /\ actual_coll_level = max_coll_level - 1
    /\ Cardinality(Nodes) = 3
    /\ coll_number_of_direct_childs[0] = 2
    /\ max_coll_level = 1

(***************************************************************************)
(* C15: on a well-formed tree the three loops end: the hierarchy walk      *)
(* reaches a negative level, every sibling loop of the propagation reaches *)
(* cursor 0, and the resolver walk reaches a negative level.               *)
(***************************************************************************)
C15_LoopsTerminate ==
    /\ (pc = "walk" /\ Nodes # {}) ~> (pc = "walk" /\ actual_coll_level < 0)
    /\ (pc = "prop_while") ~> (pc = "prop_while" /\ child_idx = 0)
    /\ (pc = "resolve") ~> (pc = "resolve" /\ actual_coll_level < 0)

\* the resolver walk of a chain of three nodes has ended, after the
\* hierarchy walk and the sibling loops of two parents
C15_Witness ==
    /\ pc = "resolve"
    /\ actual_coll_level < 0
    /\ Cardinality(Nodes) = 3
    /\ max_coll_level = 2
    /\ \A i \in Nodes : coll_parsed_flag[i] = (i # 0)

\* a step of the hierarchy walk that stays in the walk
WalkStep == pc = "walk" /\ pc' = "walk"

\* the step makes another node current without leaving the level below
EntersNode ==
    /\ collection_node_idx' # collection_node_idx
    /\ actual_coll_level' >= actual_coll_level

\* the step makes another node current one level up
ReturnsToNode ==
    /\ collection_node_idx' # collection_node_idx
    /\ actual_coll_level' < actual_coll_level

(***************************************************************************)
(* C16 (as stated): in the hierarchy walk no node is made current a        *)
(* second time, and no level entry that has been written is written again  *)
(* with another value.                                                     *)
(***************************************************************************)
C16_CurrentOnceWrittenOnce ==
    [][WalkStep =>
         /\ collection_node_idx' # collection_node_idx
               => coll_levels[collection_node_idx'] = -1
         /\ \A i \in DOMAIN coll_levels :
               coll_levels[i] # -1 => coll_levels'[i] = coll_levels[i]]_vars

(***************************************************************************)
(* C16 (amended): a node is entered, by a descent or a sibling step, only  *)
(* while its level entry is still -1, so at most once, and every node has  *)
(* been entered when the walk is over.  A node with children becomes       *)
(* current again when the walk ascends from its last child.  A level entry *)
(* changes only on the current node: from -1 to the depth (a leaf, or a    *)
(* node returned to), from -1 to the depth plus one (a descent into the    *)
(* first child), or from the depth plus one back to the depth (the node is *)
(* current again).  After the walk every entry is the depth of its node.   *)
(***************************************************************************)
C16_EnteredOnceRewrittenOnReturn ==
    /\ [][WalkStep =>
            /\ EntersNode => coll_levels[collection_node_idx'] = -1
            /\ ReturnsToNode =>
                  /\ collection_node_idx'
                        = link_collection_nodes[collection_node_idx].parent
                  /\ link_collection_nodes[collection_node_idx].next_sibling = 0
                  /\ coll_levels[collection_node_idx']
                        = Depth(collection_node_idx') + 1
            /\ \A i \in DOMAIN coll_levels :
                  coll_levels'[i] # coll_levels[i] =>
                      /\ i = collection_node_idx
                      /\ \/ coll_levels[i] = -1 /\ coll_levels'[i] = Depth(i)
                         \/ /\ coll_levels[i] = -1
                            /\ coll_levels'[i] = Depth(i) + 1
                            /\ collection_node_idx'
                                  = link_collection_nodes[i].first_child
                         \/ /\ coll_levels[i] = Depth(i) + 1
                            /\ coll_levels'[i] = Depth(i)
                            /\ link_collection_nodes[i].number_of_children > 0]_vars
    /\ []((WalkDone /\ Nodes # {}) =>
            \A i \in Nodes : coll_levels[i] = Depth(i))

\* the walk has come back to the root of a three-node tree from its last
\* child: the root is current a second time and its entry still holds 1
C16_Witness ==
    /\ pc = "walk"
    /\ Cardinality(Nodes) = 3
    /\ collection_node_idx = 0
    /\ actual_coll_level = 0
    /\ coll_levels[0] = 1
    /\ \A i \in Nodes \ {0} : coll_levels[i] = Depth(i)

\* the positions of the order table that belong to node p
OrderKeys(p) == {<<p, i>> : i \in 0..(coll_number_of_direct_childs[p] - 1)}

\* the resolver step that builds the order table of the current node and
\* goes on to its sorting passes or, with one child, straight down
BuildStep ==
    /\ pc = "resolve"
    /\ pc' = "res_sort" \/ actual_coll_level' > actual_coll_level

(***************************************************************************)
(* C17: the resolver builds the order table of a node with children when   *)
(* the node has no entry yet, so once, and adds exactly the positions      *)
(* 0..n-1 of that node; the sorting passes follow that one build and add   *)
(* or drop no position; when the resolver is over, the table has the       *)
(* positions 0..n-1 of every node with n >= 1 children and no position of  *)
(* a node without children.                                                *)
(***************************************************************************)
C17_OrderTableBuiltOnce ==
    /\ [][/\ BuildStep =>
               /\ coll_number_of_direct_childs[collection_node_idx] >= 1
               /\ OrderKeys(collection_node_idx) \cap DOMAIN coll_child_order = {}
               /\ DOMAIN coll_child_order'
                     = DOMAIN coll_child_order \cup OrderKeys(collection_node_idx)
               /\ pc' = "res_sort"
                     <=> coll_number_of_direct_childs[collection_node_idx] > 1
          /\ (pc \in {"resolve", "res_sort"} /\ ~BuildStep) =>
               DOMAIN coll_child_order' = DOMAIN coll_child_order
          /\ pc' = "res_sort" => (BuildStep \/ pc = "res_sort")]_vars
    /\ [](ReturnedOk =>
            DOMAIN coll_child_order = UNION {OrderKeys(p) : p \in Nodes})

\* the resolver is over on a root with two leaf children: built and sorted
\* once, the root has two positions and the leaves have none
C17_Witness ==
    /\ ReturnedOk
    /\ Cardinality(Nodes) = 3
    /\ max_coll_level = 1
    /\ DOMAIN coll_child_order = {<<0, 0>>, <<0, 1>>}

(***************************************************************************)
(* C18: a step of the propagation leaves the level table, the child-count  *)
(* table and max_coll_level as they are; a step of the child-order         *)
(* resolution leaves the bit-range table, the level table and the          *)
(* child-count table as they are; and no step of any stage changes the     *)
(* header, the capability records or the link-collection nodes.            *)
(***************************************************************************)
C18_StagesKeepEarlierTables ==
    [][/\ pc \in {"prop_for", "prop_while", "prop_merge"} =>
            UNCHANGED <<coll_levels, coll_number_of_direct_childs, max_coll_level>>
       /\ pc \in {"resolve", "res_sort"} =>
            UNCHANGED <<coll_bit_range, coll_levels, coll_number_of_direct_childs>>
       /\ UNCHANGED <<magic_key, caps_info, caps, link_collection_nodes>>]_vars

\* both stages have written: propagation widened an entry of the root that
\* no record of the root fills, and the resolver built and sorted the table
\* of the root's two children
C18_Witness ==
    /\ ReturnedOk
    /\ max_coll_level = 1
    /\ \E rid \in ReportIds, rt \in ReportTypes :
          Matching(0, rid, rt) = {} /\ Range(0, rid, rt).first_bit # None
    /\ DOMAIN coll_child_order = OrderKeys(0)
    /\ coll_number_of_direct_childs[0] = 2

\* the order table of p has been filled from its sibling chain
OrderFilled(p) ==
    /\ Propagated
    /\ coll_number_of_direct_childs[p] >= 1
    /\ coll_parsed_flag[link_collection_nodes[p].first_child]

(***************************************************************************)
(* C19: once the order table of a parent is filled, and after every swap   *)
(* of its sorting passes, its positions 0..n-1 hold a permutation of its   *)
(* direct children: every position holds a direct child and every direct   *)
(* child is at exactly one position.                                       *)
(***************************************************************************)
C19_OrderIsPermutationOfChildren ==
    \A p \in Nodes :
        OrderFilled(p) =>
            /\ OrderKeys(p) \subseteq DOMAIN coll_child_order
            /\ \A k \in OrderKeys(p) : coll_child_order[k] \in ChildrenOf(p)
            /\ \A c \in ChildrenOf(p) :
                  Cardinality({k \in OrderKeys(p) : coll_child_order[k] = c}) = 1

\* a sorting pass has swapped the two children of the root: the first child
\* of the chain, put last by the fill, is at position 0
C19_Witness ==
    /\ pc = "res_sort"
    /\ collection_node_idx = 0
    /\ coll_number_of_direct_childs[0] = 2
    /\ coll_child_order[<<0, 0>>] = link_collection_nodes[0].first_child
    /\ coll_child_order[<<0, 1>>] # link_collection_nodes[0].first_child

\* every record starts at byte 1 or later, spans one bit or more and ends
\* on a bit below 65536
RecordsInRange ==
    \A i \in DOMAIN caps :
        /\ caps[i].byte_position >= 1
        /\ caps[i].report_size * caps[i].report_count >= 1
        /\ LastOffset(i) < 65536

\* the index loops have taken record i
Indexed(i) == pc # "index" \/ i < caps_idx

\* first_bit and last_bit are both absent, or both present and in order
WellFormed(range) ==
    \/ range.first_bit = None /\ range.last_bit = None
    \/ /\ range.first_bit # None
       /\ range.last_bit # None
       /\ range.first_bit <= range.last_bit

(***************************************************************************)
(* C20: while the index is built and propagated, if every record starts    *)
(* at byte 1 or later, spans at least one bit and ends below bit 65536,    *)
(* then every entry has both bounds absent or both present with            *)
(* first_bit <= last_bit, and no 16-bit operation of the offsets of a      *)
(* record taken so far has wrapped.                                        *)
(***************************************************************************)
C20_RangesInOrderNoWrap ==
    (/\ RecordsInRange
     /\ pc \in {"index", "walk", "prop_for", "prop_while", "prop_merge"}) =>
        /\ \A k \in DOMAIN coll_bit_range : WellFormed(coll_bit_range[k])
        /\ \A i \in DOMAIN caps : Indexed(i) => ~Overflows(caps[i])
=============================================================================
